---- MODULE Spec2Model ----
(***************************************************************************)
(* TableModel (src/src/tableview/tablemodel.cpp): a QSqlRelationalTable-   *)
(* Model subclass that exposes a database table to QML through role-keyed  *)
(* data()/setData(), with checkbox selection, insert, remove and recover.  *)
(*                                                                         *)
(* Every public member function is one action: the object lives on one     *)
(* thread and each call runs to completion.  The Qt base class and the     *)
(* database driver are the "store": they are modelled by what the calls    *)
(* made in tablemodel.cpp do to the cached rows, the bound table, the      *)
(* record and lastError().  The store may reject a statement (a constraint *)
(* violation, a failed query); that is a nondeterministic input.           *)
(*                                                                         *)
(* QString values are tuples of one-character strings, so that trimmed()   *)
(* and the case-insensitive compare are computed and not assumed.          *)
(*                                                                         *)
(* call, ret, events and reloads are the record of one call.  A behaviour  *)
(* takes that record of at most one of its calls, the call under           *)
(* observation, and ends there; the calls before it run unrecorded.  Every *)
(* state the object can reach is reached by unrecorded calls, and every    *)
(* call from every such state is reached as the recorded one.              *)
(***************************************************************************)
EXTENDS Integers, Sequences, FiniteSets, TLC

VARIABLES
    databaseName,    \* d->databaseName
    d_tableName,     \* d->tableName
    errorString,     \* d->errorString: the concatenated message texts
    selectionModel,  \* d->selectionModel (a pointer)
    selection,       \* the rows selected in the object d->selectionModel points to
    roles,           \* d->roles: QHash<int, QByteArray>
    baseTableName,   \* QSqlTableModel's own table name, read by tableName()
    dbName,          \* database().databaseName() of the connection
    rec,             \* record(): the field names of the bound table
    rows,            \* the rows the model holds (its cache of the table)
    store,           \* the tables of the database: name -> rows
    lastError,       \* lastError().text()
    nextId,          \* identity given to the next inserted row
    edits,           \* number of calls that have changed a table of the database
    completed,       \* componentComplete() has run
    crashed,         \* the process died on a null-pointer access
    recorded,        \* the call under observation has been made
    call,            \* the recorded call: its name and its arguments
    ret,             \* what the recorded call returned
    events,          \* the signals the recorded call emitted, in order
    reloads          \* QSqlRelationalTableModel::select() calls the recorded call made

vars == <<databaseName, d_tableName, errorString, selectionModel, selection, roles,
          baseTableName, dbName, rec, rows, store, lastError, nextId, edits,
          completed, crashed, recorded, call, ret, events, reloads>>

-----------------------------------------------------------------------------
(* Bounds of the model *)

MaxEdits == 1       \* calls that change a table of the database (INSERT, UPDATE, DELETE) in one behaviour
MaxErrLen == 2      \* messages d->errorString holds at most: no insert() fails beyond that

-----------------------------------------------------------------------------
(* Qt constants used by the source *)

DisplayRole == 0
EditRole == 2
CheckStateRole == 10
UserRole == 256

Null == "Null"              \* QVariant(): an invalid / null value
Pending == "Pending"        \* TableModel::PendingStatus
Committed == "Committed"
Default == "Default"        \* the value the store gives a field that is not generated
nullptr == "nullptr"

-----------------------------------------------------------------------------
(* QString *)

IsSpace(c) == c = " "

ToLower(c) ==
    CASE c = "B" -> "b"
      [] c = "K" -> "k"
      [] c = "A" -> "a"
      [] c = "M" -> "m"
      [] OTHER -> c

Lower(s) == [i \in 1..Len(s) |-> ToLower(s[i])]

RECURSIVE DropLeading(_)
DropLeading(s) ==
    IF s # <<>> /\ IsSpace(Head(s)) THEN DropLeading(Tail(s)) ELSE s

RECURSIVE DropTrailing(_)
DropTrailing(s) ==
    IF s # <<>> /\ IsSpace(s[Len(s)])
    THEN DropTrailing(SubSeq(s, 1, Len(s) - 1))
    ELSE s

\* QString::trimmed(): whitespace removed from the start and the end
trimmed(s) == DropTrailing(DropLeading(s))

\* !a.compare(b, Qt::CaseInsensitive)
SameNoCase(a, b) == Lower(a) = Lower(b)

Books == <<"b", "k">>
Authors == <<"a", "u">>
Tags == <<"t", "g">>
Memory == <<"m">>       \* ":memory:"

\* names a caller passes to setTable
TableArgs == { Books, Authors, <<" ", "B", "k", " ">>, <<"g", "h">>, <<" ">> }

\* names a caller passes to setDatabaseName
DatabaseArgs == { <<>>, Memory }

-----------------------------------------------------------------------------
(* The store: the database behind Sql::database() *)

\* database().tables()
Catalog == {Books, Authors, Tags}

\* the columns of each table, in declaration order; one table is without
\* the field deleted_at
Schema(t) ==
    IF t = Books THEN <<"state", "deleted_at">>
    ELSE IF t = Authors THEN <<"deleted_at", "name", "state">>
    ELSE <<"state", "name">>

\* The driver resolves a table name without regard to case (SQLite); the
\* result is the set of catalog tables the name denotes: one or none.
Resolve(name) == {t \in Catalog : SameNoCase(t, name)}

\* database().record(name): empty when the table is unknown
RecordOf(name) ==
    IF Resolve(name) = {} THEN <<>> ELSE Schema(CHOOSE t \in Resolve(name) : TRUE)

InitStore ==
    [t \in Catalog |->
        IF t = Books
        THEN << [id |-> 1, cells |-> <<Committed, Null>>],
                [id |-> 2, cells |-> <<Committed, "ts">>] >>
        ELSE IF t = Authors
        THEN << [id |-> 3, cells |-> <<Null, "v", Committed>>] >>
        ELSE << [id |-> 4, cells |-> <<Committed, "v">>] >>]

-----------------------------------------------------------------------------
(* QModelIndex *)

\* QModelIndex(): the invalid index
InvalidIndex == [row |-> -1, column |-> -1, model |-> FALSE]

\* createIndex(row, column)
createIndex(row, column) == [row |-> row, column |-> column, model |-> TRUE]

\* QModelIndex::isValid()
isValid(index) == index.row >= 0 /\ index.column >= 0 /\ index.model

\* rowCount() and QAbstractTableModel::index(row, column) in state s: the
\* index is invalid unless the cell exists
rowCount(s) == Len(s.rows)

index(s, row, column) ==
    IF row >= 0 /\ row < Len(s.rows) /\ column >= 0 /\ column < Len(s.rec)
    THEN createIndex(row, column)
    ELSE InvalidIndex

-----------------------------------------------------------------------------
(* Sequence helpers *)

RemoveAt(s, i) == SubSeq(s, 1, i - 1) \o SubSeq(s, i + 1, Len(s))

InsertSeq(s, i, x) == SubSeq(s, 1, i - 1) \o <<x>> \o SubSeq(s, i, Len(s))

RECURSIVE WithoutId(_, _)
WithoutId(s, id) ==
    IF s = <<>> THEN <<>>
    ELSE IF Head(s).id = id THEN WithoutId(Tail(s), id)
    ELSE <<Head(s)>> \o WithoutId(Tail(s), id)

-----------------------------------------------------------------------------
(* Initial state: after TableModel::TableModel() *)

NoError == ""

\* QHash<int, QByteArray>()
EmptyHash == [k \in {} |-> ""]

Init ==
    /\ databaseName = <<>>
    /\ d_tableName = <<>>
    /\ errorString = <<>>
    /\ selectionModel = nullptr
    /\ selection = {}
    /\ roles = EmptyHash
    /\ baseTableName = <<>>
    /\ dbName = <<>>
    /\ rec = <<>>
    /\ rows = <<>>
    /\ store = InitStore
    /\ lastError = NoError
    /\ nextId = 5
    /\ edits = 0
    /\ completed = FALSE
    /\ crashed = FALSE
    /\ recorded = FALSE
    /\ call = [name |-> "TableModel", args |-> <<>>]
    /\ ret = "void"
    /\ events = <<>>
    /\ reloads = 0

-----------------------------------------------------------------------------
(* A member function is an operator from the object's state and the call's *)
(* inputs to [s |-> the state after, ret |-> the value returned].  St is   *)
(* the state a call starts in: no signal emitted yet, no reload made yet.  *)

St ==
    [databaseName |-> databaseName, d_tableName |-> d_tableName,
     errorString |-> errorString, selectionModel |-> selectionModel,
     selection |-> selection,
     roles |-> roles, baseTableName |-> baseTableName, dbName |-> dbName,
     rec |-> rec, rows |-> rows, store |-> store, lastError |-> lastError,
     nextId |-> nextId, edits |-> edits, completed |-> completed,
     crashed |-> crashed, events |-> <<>>, reloads |-> 0]

Returns(s, v) == [s |-> s, ret |-> v]

\* emit signal(msg)
Emit(s, sig, msg) == [s EXCEPT !.events = Append(@, [sig |-> sig, msg |-> msg])]

\* the process dies: nothing after the faulting access runs
Crash(s) == Returns([s EXCEPT !.crashed = TRUE], "SIGSEGV")

\* the text of one message
Msg(kind, err, table, db) == [kind |-> kind, err |-> err, table |-> table, db |-> db]

\* QSqlError::text() as a message text: empty when there is no error
StoreText(e) == IF e = NoError THEN <<>> ELSE <<Msg("store", e, <<>>, <<>>)>>

-----------------------------------------------------------------------------
(* The calls tablemodel.cpp makes into QSqlRelationalTableModel.  `ok` is  *)
(* whether the database accepts the statement the call issues.             *)

\* the catalog table the model is bound to (any, when there is none)
BoundTable(s) == CHOOSE t \in Catalog : Resolve(s.baseTableName) \in {{}, {t}}

IsBound(s) == Resolve(s.baseTableName) # {}

\* QSqlRelationalTableModel::setTable(table): the model is cleared and the
\* record is read from the database; an unknown table leaves an error
baseSetTable(s, table) ==
    [s EXCEPT !.baseTableName = table,
              !.rec = RecordOf(table),
              !.rows = <<>>,
              !.selection = {},
              !.lastError = IF RecordOf(table) = <<>>
                            THEN "Unable to find table" ELSE NoError]

\* QSqlRelationalTableModel::select(): the rows are read again; a failed
\* query leaves the model empty and lastError() set
baseSelect(s, ok) ==
    IF ok /\ IsBound(s)
    THEN Returns([s EXCEPT !.rows = s.store[BoundTable(s)],
                           !.selection = {},
                           !.lastError = NoError,
                           !.reloads = @ + 1], TRUE)
    ELSE Returns([s EXCEPT !.rows = <<>>,
                           !.selection = {},
                           !.lastError = "query failed",
                           !.reloads = @ + 1], FALSE)

\* rows selected after the row at `row` left the model: it is deselected and
\* the rows behind it move up by one
SelectionWithout(sel, row) ==
    {r \in sel : r < row} \cup {r - 1 : r \in {x \in sel : x > row}}

\* rows selected after a row entered the model at `row`
SelectionShifted(sel, row) ==
    {r \in sel : r < row} \cup {r + 1 : r \in {x \in sel : x >= row}}

\* removeRow(row): false when there is no such row or the database rejects
\* the DELETE; otherwise the row leaves the table and the model
removeRow(s, row, ok) ==
    IF row < 0 \/ row >= Len(s.rows) THEN Returns(s, FALSE)
    ELSE IF ~ok THEN Returns([s EXCEPT !.lastError = "delete rejected"], FALSE)
    ELSE Returns([s EXCEPT !.rows = RemoveAt(@, row + 1),
                           !.store[BoundTable(s)] = WithoutId(@, s.rows[row + 1].id),
                           !.selection = SelectionWithout(@, row),
                           !.edits = @ + 1,
                           !.lastError = NoError], TRUE)

\* NewRow without the value set for `state`
NewRow_AllDefault(s) ==
    [id |-> s.nextId, cells |-> [i \in 1..Len(s.rec) |-> Default]]

\* the row insertRecord() builds from a record in which only `state` is
\* generated: every other field is left to the database's default
NewRow(s) ==
    [id |-> s.nextId,
     cells |-> [i \in 1..Len(s.rec) |->
                   IF s.rec[i] = "state" THEN Pending ELSE Default]]

\* insertRecord(row, rec): a negative row appends
insertRecord(s, row, ok) ==
    LET at == IF row < 0 THEN Len(s.rows) ELSE row IN
    IF at > Len(s.rows) THEN Returns(s, FALSE)
    ELSE IF ~ok \/ ~IsBound(s)
    THEN Returns([s EXCEPT !.lastError = "insert rejected"], FALSE)
    ELSE Returns([s EXCEPT !.rows = InsertSeq(@, at + 1, NewRow(s)),
                           !.store[BoundTable(s)] = Append(@, NewRow(s)),
                           !.selection = SelectionShifted(@, at),
                           !.nextId = @ + 1,
                           !.edits = @ + 1,
                           !.lastError = NoError], TRUE)

\* the rows with cell (row, column) of the row of identity id set to value
RECURSIVE WithCell(_, _, _, _)
WithCell(rs, id, column, value) ==
    IF rs = <<>> THEN <<>>
    ELSE <<IF Head(rs).id = id
           THEN [Head(rs) EXCEPT !.cells[column + 1] = value]
           ELSE Head(rs)>> \o WithCell(Tail(rs), id, column, value)

\* QSqlRelationalTableModel::setData(index, value, role): only the edit role
\* writes, only into an existing cell; a value the cell already holds is
\* accepted with nothing written; any other goes (OnFieldChange) at once
\* into the database, which may reject the UPDATE
baseSetData(s, idx, value, role, ok) ==
    IF role # EditRole THEN Returns(s, FALSE)
    ELSE IF ~isValid(idx) \/ idx.row >= Len(s.rows) \/ idx.column >= Len(s.rec)
    THEN Returns(s, FALSE)
    ELSE IF s.rows[idx.row + 1].cells[idx.column + 1] = value THEN Returns(s, TRUE)
    ELSE IF ~ok THEN Returns([s EXCEPT !.lastError = "update rejected"], FALSE)
    ELSE LET id == s.rows[idx.row + 1].id
             s1 == [s EXCEPT !.rows = WithCell(@, id, idx.column, value),
                             !.store[BoundTable(s)] = WithCell(@, id, idx.column, value),
                             !.edits = @ + 1,
                             !.lastError = NoError]
         IN Returns(Emit(s1, "dataChanged", <<idx.row, idx.column>>), TRUE)

\* QSqlRelationalTableModel::data(index, role): the cell's value for the
\* display and edit roles, an invalid QVariant otherwise
baseData(s, idx, role) ==
    IF role \notin {DisplayRole, EditRole} THEN Null
    ELSE IF ~isValid(idx) \/ idx.row >= Len(s.rows) \/ idx.column >= Len(s.rec)
    THEN Null
    ELSE s.rows[idx.row + 1].cells[idx.column + 1]

-----------------------------------------------------------------------------
(* The calls made through d->selectionModel.  The pointer is initialised   *)
(* to nullptr and no member function assigns it, so each of these is a     *)
(* member call on a null pointer: undefined behaviour.  `ub` is what the   *)
(* build makes of it: the access faults and the process dies, or the call  *)
(* comes back having changed nothing, with an arbitrary result.  The       *)
(* branch for an attached selection model is what the call would do.       *)

UbFault == "fault"
UbReturns == "returns"

\* d->selectionModel->select(index, flag)
selectIndex(s, idx, flag, ub) ==
    IF s.selectionModel = nullptr
    THEN [s EXCEPT !.crashed = (ub = UbFault)]
    ELSE [s EXCEPT !.selection = IF flag = "Select"
                                 THEN @ \cup {idx.row} ELSE @ \ {idx.row}]

\* d->selectionModel->isSelected(index); `garbage` is the arbitrary result
isSelected(s, idx, ub, garbage) ==
    IF s.selectionModel = nullptr
    THEN IF ub = UbFault THEN Crash(s) ELSE Returns(s, garbage)
    ELSE Returns(s, idx.row \in s.selection)

\* std::sort(begin, end) on a QModelIndexList: ascending by row
RECURSIVE InsertSorted(_, _)
InsertSorted(sorted, x) ==
    IF sorted = <<>> THEN <<x>>
    ELSE IF x.row < Head(sorted).row THEN <<x>> \o sorted
    ELSE <<Head(sorted)>> \o InsertSorted(Tail(sorted), x)

RECURSIVE sort(_)
sort(list) ==
    IF list = <<>> THEN <<>>
    ELSE InsertSorted(sort(Tail(list)), Head(list))

\* the set of rows as a QModelIndexList, in some order
RECURSIVE IndexList(_)
IndexList(rowSet) ==
    IF rowSet = {} THEN <<>>
    ELSE LET r == CHOOSE x \in rowSet : TRUE
         IN <<createIndex(r, 0)>> \o IndexList(rowSet \ {r})

\* d->selectionModel->selectedIndexes(); `garbage` is the arbitrary result
selectedIndexes(s, ub, garbage) ==
    IF s.selectionModel = nullptr
    THEN IF ub = UbFault THEN Crash(s) ELSE Returns(s, garbage)
    ELSE Returns(s, IndexList(s.selection))

-----------------------------------------------------------------------------
(* TableModel's member functions *)

\* QVariant::toBool()
toBool(value) == value \notin {Null, "false", "0", ""}

\* Key giving the role of the first column when no key holds the value
Key_FirstColumn(hash, value) ==
    IF \E k \in DOMAIN hash : hash[k] = value
    THEN CHOOSE k \in DOMAIN hash : hash[k] = value
    ELSE UserRole + 1

\* QHash::key(value): a key holding the value, or 0 when there is none
Key(hash, value) ==
    IF \E k \in DOMAIN hash : hash[k] = value
    THEN CHOOSE k \in DOMAIN hash : hash[k] = value
    ELSE 0

\* RoleHash with the column roles starting at Qt::UserRole itself
RoleHash_FromUserRole(record) ==
    [k \in {CheckStateRole} \cup {UserRole + i : i \in 0..(Len(record) - 1)} |->
        IF k = CheckStateRole THEN "checkState" ELSE record[k - UserRole + 1]]

\* the hash roleNames() builds from record()
RoleHash(record) ==
    [k \in {CheckStateRole} \cup {UserRole + 1 + i : i \in 0..(Len(record) - 1)} |->
        IF k = CheckStateRole THEN "checkState" ELSE record[k - UserRole]]

roleNames(s) == Returns([s EXCEPT !.roles = RoleHash(s.rec)], RoleHash(s.rec))

tableName(s) == s.baseTableName

setDatabaseName(s, fileName) ==
    IF SameNoCase(fileName, s.databaseName) THEN Returns(s, "void")
    ELSE Returns(Emit([s EXCEPT !.databaseName = fileName],
                      "databaseNameChanged", <<>>), "void")

setTable(s, name) ==
    LET table == trimmed(name) IN
    IF table = <<>> \/ SameNoCase(table, tableName(s)) THEN Returns(s, "void")
    ELSE LET s1 == [s EXCEPT !.d_tableName = table]
             s2 == IF s1.databaseName # <<>> THEN baseSetTable(s1, table) ELSE s1
         IN Returns(Emit(s2, "tableChanged", <<>>), "void")

selectedRows(s) ==
    IF s.selectionModel = nullptr THEN Returns(s, 0)
    ELSE Returns(s, Cardinality(s.selection))

\* the text errorString() returns
errorStringOf(s) ==
    IF s.errorString = <<>> THEN StoreText(s.lastError) ELSE s.errorString

\* refresh without the look into database().tables()
refresh_NoCatalogCheck(s, ok) ==
    LET r == baseSelect(s, ok) IN
    IF ~r.ret
    THEN LET msg == <<Msg("Read record error", r.s.lastError, <<>>, <<>>)>>
         IN Returns(Emit([r.s EXCEPT !.errorString = msg], "error", msg), FALSE)
    ELSE Returns(r.s, TRUE)

refresh(s, ok) ==
    IF tableName(s) \notin Catalog
    THEN LET msg == <<Msg("Can not open table", NoError, tableName(s), s.dbName)>>
         IN Returns(Emit([s EXCEPT !.errorString = msg], "error", msg), FALSE)
    ELSE LET r == baseSelect(s, ok) IN
         IF ~r.ret
         THEN LET msg == <<Msg("Read record error", r.s.lastError, <<>>, <<>>)>>
              IN Returns(Emit([r.s EXCEPT !.errorString = msg], "error", msg), FALSE)
         ELSE Returns(r.s, TRUE)

select(s, ok) == refresh(s, ok)

insert(s, row, ok) ==
    LET r == insertRecord(s, row, ok) IN
    IF ~r.ret
    THEN LET text == r.s.errorString
                     \o <<Msg("Insert record failed", r.s.lastError,
                              tableName(s), s.databaseName)>>
         IN Returns(Emit([r.s EXCEPT !.errorString = text], "error", text), -1)
    ELSE Returns(r.s, row)

add(s, ok) == insert(s, rowCount(s), ok)

remove(s, row, ok) == removeRow(s, row, ok)

\* setData without the test of index.isValid()
setData_NoValidityCheck(s, idx, value, role, ok, ub) ==
    IF role < UserRole
    THEN IF role = CheckStateRole
         THEN LET flag == IF toBool(value) THEN "Select" ELSE "Deselect"
                  s1 == selectIndex(s, idx, flag, ub)
              IN IF s1.crashed THEN Crash(s1)
                 ELSE Returns(Emit(Emit(s1, "selectedRowsChanged", <<>>),
                                   "dataChanged", <<idx.row, idx.column>>), TRUE)
         ELSE baseSetData(s, idx, value, role, ok)
    ELSE LET column == role - UserRole - 1
             modelIndex == createIndex(idx.row, column)
         IN baseSetData(s, modelIndex, value, EditRole, ok)

\* setData taking the column roles to start at Qt::UserRole itself
setData_ColumnFromUserRole(s, idx, value, role, ok, ub) ==
    IF ~isValid(idx) THEN Returns(s, FALSE)
    ELSE IF role < UserRole
    THEN IF role = CheckStateRole
         THEN LET flag == IF toBool(value) THEN "Select" ELSE "Deselect"
                  s1 == selectIndex(s, idx, flag, ub)
              IN IF s1.crashed THEN Crash(s1)
                 ELSE Returns(Emit(Emit(s1, "selectedRowsChanged", <<>>),
                                   "dataChanged", <<idx.row, idx.column>>), TRUE)
         ELSE baseSetData(s, idx, value, role, ok)
    ELSE LET column == role - UserRole
             modelIndex == createIndex(idx.row, column)
         IN baseSetData(s, modelIndex, value, EditRole, ok)

setData(s, idx, value, role, ok, ub) ==
    IF ~isValid(idx) THEN Returns(s, FALSE)
    ELSE IF role < UserRole
    THEN IF role = CheckStateRole
         THEN LET flag == IF toBool(value) THEN "Select" ELSE "Deselect"
                  s1 == selectIndex(s, idx, flag, ub)
              IN IF s1.crashed THEN Crash(s1)
                 ELSE Returns(Emit(Emit(s1, "selectedRowsChanged", <<>>),
                                   "dataChanged", <<idx.row, idx.column>>), TRUE)
         ELSE baseSetData(s, idx, value, role, ok)
    ELSE LET column == role - UserRole - 1
             modelIndex == createIndex(idx.row, column)
         IN baseSetData(s, modelIndex, value, EditRole, ok)

\* the QVariant a bool is returned as
QVariantOf(b) == IF b THEN "true" ELSE "false"

data(s, idx, role, ub, garbage) ==
    IF ~isValid(idx) THEN Returns(s, Null)
    ELSE IF role < UserRole
    THEN IF role = CheckStateRole
         THEN LET r == isSelected(s, idx, ub, garbage)
              IN IF r.s.crashed THEN r ELSE Returns(r.s, QVariantOf(r.ret))
         ELSE Returns(s, baseData(s, idx, role))
    ELSE LET column == role - UserRole - 1
             modelIndex == createIndex(idx.row, column)
         IN Returns(s, baseData(s, modelIndex, DisplayRole))

recoverRow(s, row, ok, ub) ==
    LET modelIndex == createIndex(row, 0)
        role == Key(s.roles, "deleted_at")
    IN setData(s, modelIndex, Null, role, ok, ub)

\* the loop of removeSelected(): the list is consumed from its tail.
\* `rejected` are the rows whose DELETE the database rejects, `faultAt` the
\* row at whose deselection the null-pointer call faults (-1: none does)
RECURSIVE RemoveLoop(_, _, _, _, _)
RemoveLoop(s, list, total, rejected, faultAt) ==
    IF list = <<>> THEN Returns(s, total)
    ELSE LET last == list[Len(list)]
             rest == SubSeq(list, 1, Len(list) - 1)
             currentRow == last.row
             r == removeRow(s, currentRow, currentRow \notin rejected)
         IN IF r.ret
            THEN LET s1 == selectIndex(r.s, last, "Deselect",
                                       IF faultAt = currentRow THEN UbFault ELSE UbReturns)
                 IN IF s1.crashed THEN Crash(s1)
                    ELSE RemoveLoop(s1, rest, total + 1, rejected, faultAt)
            ELSE RemoveLoop(r.s, rest, total, rejected, faultAt)

removeSelected(s, ub, garbage, rejected, faultAt) ==
    LET l == selectedIndexes(s, ub, garbage) IN
    IF l.s.crashed THEN l
    ELSE RemoveLoop(l.s, sort(l.ret), 0, rejected, faultAt)

\* the loop of recoverSelected()
RECURSIVE RecoverLoop(_, _, _, _, _)
RecoverLoop(s, list, total, rejected, faultAt) ==
    IF list = <<>> THEN Returns(s, total)
    ELSE LET last == list[Len(list)]
             rest == SubSeq(list, 1, Len(list) - 1)
             r == recoverRow(s, last.row, last.row \notin rejected, UbFault)
         IN IF r.s.crashed THEN r
            ELSE IF r.ret
            THEN LET s1 == selectIndex(r.s, last, "Deselect",
                                       IF faultAt = last.row THEN UbFault ELSE UbReturns)
                 IN IF s1.crashed THEN Crash(s1)
                    ELSE RecoverLoop(s1, rest, total + 1, rejected, faultAt)
            ELSE RecoverLoop(r.s, rest, total, rejected, faultAt)

recoverSelected(s, ub, garbage, rejected, faultAt) ==
    LET l == selectedIndexes(s, ub, garbage) IN
    IF l.s.crashed THEN l
    ELSE RecoverLoop(l.s, sort(l.ret), 0, rejected, faultAt)

componentComplete(s, ok) ==
    LET s1 == IF s.databaseName = <<>> /\ s.d_tableName = <<>>
              THEN [s EXCEPT !.databaseName = Memory, !.d_tableName = Books]
              ELSE s
        s2 == [s1 EXCEPT !.dbName = s1.databaseName, !.completed = TRUE]
        s3 == setTable(s2, s2.d_tableName).s
    IN Returns(select(s3, ok).s, "void")

-----------------------------------------------------------------------------
(* The inputs of the calls *)

\* the indexes a caller can hold: the invalid one, those index() gives for
\* the rows of the model (and for the row behind the last: the invalid one),
\* and one kept from before the last row went away
Indexes(s) ==
    {InvalidIndex}
        \cup {index(s, r, 0) : r \in 0..Len(s.rows)}
        \cup {createIndex(Len(s.rows), 0)}

\* the roles a caller passes: the display and the check-state role, and the
\* roles of the first three columns
Roles == {DisplayRole, CheckStateRole, UserRole + 1, UserRole + 2, UserRole + 3}

Values == {Null, "v"}

\* the rows, highest first, as a QModelIndexList
RECURSIVE Descending(_)
Descending(rowSet) ==
    IF rowSet = {} THEN <<>>
    ELSE LET r == CHOOSE x \in rowSet : \A y \in rowSet : y <= x
         IN <<createIndex(r, 0)>> \o Descending(rowSet \ {r})

\* the lists a null-pointer selectedIndexes() may hand back: the indexes of
\* up to two rows, one of them possibly behind the last row, not sorted
GarbageLists(s) ==
    {Descending(rowSet) : rowSet \in {x \in SUBSET (0..Len(s.rows)) : Cardinality(x) <= 2}}

\* the rows a list names
RowsOf(list) == {list[i].row : i \in 1..Len(list)}

-----------------------------------------------------------------------------
(* Actions: one per member function *)

\* the call `name(args)` took the object to r.s and returned r.ret
Done(r, name, args) ==
    /\ ~crashed /\ ~recorded
    /\ r.s.edits <= MaxEdits
    /\ Len(r.s.errorString) <= MaxErrLen
    /\ databaseName' = r.s.databaseName
    /\ d_tableName' = r.s.d_tableName
    /\ errorString' = r.s.errorString
    /\ selectionModel' = r.s.selectionModel
    /\ selection' = r.s.selection
    /\ roles' = r.s.roles
    /\ baseTableName' = r.s.baseTableName
    /\ dbName' = r.s.dbName
    /\ rec' = r.s.rec
    /\ rows' = r.s.rows
    /\ store' = r.s.store
    /\ lastError' = r.s.lastError
    /\ nextId' = r.s.nextId
    /\ edits' = r.s.edits
    /\ completed' = r.s.completed
    /\ crashed' = r.s.crashed
    /\ \/ /\ recorded' = TRUE
          /\ call' = [name |-> name, args |-> args]
          /\ ret' = r.ret
          /\ events' = r.s.events
          /\ reloads' = r.s.reloads
       \/ UNCHANGED <<recorded, call, ret, events, reloads>>

ComponentComplete ==
    /\ ~completed
    /\ \E ok \in BOOLEAN : Done(componentComplete(St, ok), "componentComplete", <<>>)

RoleNames ==
    /\ Done(roleNames(St), "roleNames", <<>>)

SetDatabaseName ==
    /\ \E fileName \in DatabaseArgs :
          Done(setDatabaseName(St, fileName), "setDatabaseName", <<fileName>>)

SetTableTo(names) ==
    /\ \E name \in names : Done(setTable(St, name), "setTable", <<name>>)

SetTable == SetTableTo(TableArgs)

SelectedRows ==
    /\ Done(selectedRows(St), "selectedRows", <<>>)

ErrorString ==
    /\ Done(Returns(St, errorStringOf(St)), "errorString", <<>>)

\* select(), the database answering the SELECT with one of oks
SelectWith(oks) ==
    /\ \E ok \in oks : Done(select(St, ok), "select", <<>>)

Select == SelectWith(BOOLEAN)

\* add(), the database answering the INSERT with one of oks; the answer is
\* recorded behind the arguments of the call
AddWith(oks) ==
    /\ \E ok \in oks : Done(add(St, ok), "add", <<ok>>)

Add == AddWith(BOOLEAN)

\* insert(row) for the rows up to `behind` behind the last one
InsertWith(behind, oks) ==
    /\ \E row \in (-1)..(Len(rows) + behind), ok \in oks :
          Done(insert(St, row, ok), "insert", <<row, ok>>)

Insert == InsertWith(1, BOOLEAN)

Remove ==
    /\ \E row \in (-1)..Len(rows), ok \in BOOLEAN :
          Done(remove(St, row, ok), "remove", <<row>>)

SetData ==
    /\ \E idx \in Indexes(St), value \in Values, role \in Roles :
          \E ok \in IF role = CheckStateRole THEN {TRUE} ELSE BOOLEAN,
             ub \in IF role = CheckStateRole THEN {UbFault, UbReturns} ELSE {UbReturns} :
             Done(setData(St, idx, value, role, ok, ub), "setData", <<idx, value, role>>)

Data ==
    /\ \E idx \in Indexes(St), role \in Roles :
          \E ub \in IF role = CheckStateRole THEN {UbFault, UbReturns} ELSE {UbReturns},
             garbage \in IF role = CheckStateRole THEN BOOLEAN ELSE {FALSE} :
             Done(data(St, idx, role, ub, garbage), "data", <<idx, role>>)

RemoveSelected ==
    /\ \E ub \in {UbFault, UbReturns}, garbage \in GarbageLists(St) :
          \E rejected \in SUBSET RowsOf(garbage), faultAt \in {-1} \cup RowsOf(garbage) :
             Done(removeSelected(St, ub, garbage, rejected, faultAt), "removeSelected", <<>>)

RecoverRow ==
    /\ \E row \in (-1)..Len(rows), ok \in BOOLEAN :
          Done(recoverRow(St, row, ok, UbFault), "recoverRow", <<row>>)

RecoverSelected ==
    /\ \E ub \in {UbFault, UbReturns}, garbage \in GarbageLists(St) :
          \E rejected \in SUBSET RowsOf(garbage), faultAt \in {-1} \cup RowsOf(garbage) :
             Done(recoverSelected(St, ub, garbage, rejected, faultAt), "recoverSelected", <<>>)

Next ==
    \/ ComponentComplete
    \/ RoleNames
    \/ SetDatabaseName
    \/ SetTable
    \/ SelectedRows
    \/ ErrorString
    \/ Select
    \/ Add
    \/ Insert
    \/ Remove
    \/ SetData
    \/ Data
    \/ RemoveSelected
    \/ RecoverRow
    \/ RecoverSelected

Spec == Init /\ [][Next]_vars

\* The object as a host that binds it to the names it is given: no row is
\* inserted, selected, edited or removed.
NextBind ==
    \/ ComponentComplete
    \/ RoleNames
    \/ SetDatabaseName
    \/ SetTable
    \/ ErrorString
    \/ Select

SpecBind == Init /\ [][NextBind]_vars

\* The object as a host that reads its errors: it binds it to a table of
\* the database or to an unknown one, reloads it and inserts rows.
SetTableKnownOrNot == SetTableTo({Books, <<"g", "h">>})

NextError ==
    \/ ComponentComplete
    \/ SetTableKnownOrNot
    \/ ErrorString
    \/ Select
    \/ Add
    \/ Insert

SpecError == Init /\ [][NextError]_vars

\* The object as a host that works on the rows of the default table: the
\* binding is the one componentComplete() makes, before any other call, and
\* the database accepts every SELECT after it and every INSERT at a row of
\* the model; it may reject an UPDATE or a DELETE.
RowsRoleNames == completed /\ RoleNames

RowsSelectedRows == completed /\ SelectedRows

RowsSelect == completed /\ SelectWith({TRUE})

RowsAdd == completed /\ AddWith({TRUE})

RowsInsert == completed /\ InsertWith(0, {TRUE})

RowsRemove == completed /\ Remove

RowsSetData == completed /\ SetData

RowsData == completed /\ Data

RowsRemoveSelected == completed /\ RemoveSelected

RowsRecoverRow == completed /\ RecoverRow

RowsRecoverSelected == completed /\ RecoverSelected

NextRows ==
    \/ ComponentComplete
    \/ RowsRoleNames
    \/ RowsSelectedRows
    \/ RowsSelect
    \/ RowsAdd
    \/ RowsInsert
    \/ RowsRemove
    \/ RowsSetData
    \/ RowsData
    \/ RowsRemoveSelected
    \/ RowsRecoverRow
    \/ RowsRecoverSelected

SpecRows == Init /\ [][NextRows]_vars

\* The object as a host that binds it to any table of the database, asks for
\* its role names or not, and recovers rows; the database accepts every
\* SELECT and may reject an UPDATE.
SetTableKnown == SetTableTo(Catalog)

SelectAccepted == SelectWith({TRUE})

NextRecover ==
    \/ ComponentComplete
    \/ SetDatabaseName
    \/ SetTableKnown
    \/ RoleNames
    \/ SelectAccepted
    \/ RecoverRow

SpecRecover == Init /\ [][NextRecover]_vars

-----------------------------------------------------------------------------
(* Properties *)

\* the recorded call is a call of `name`
Called(name) == recorded /\ call.name = name

\* errorString() in the current state
errorStringNow == errorStringOf(St)

\* the rows of the model after the rows at the positions in rowSet left it
RECURSIVE Without(_, _, _)
Without(rs, rowSet, at) ==
    IF rs = <<>> THEN <<>>
    ELSE (IF at \in rowSet THEN <<>> ELSE <<Head(rs)>>) \o Without(Tail(rs), rowSet, at + 1)

\* C1: removeSelected() removes exactly the rows that were selected when it
\* was called: it returns, the rows left are the rows that were not selected,
\* in their order, and their number is n - |S|.
C1_RemoveSelectedRemovesSelection ==
    [][(recorded' /\ call'.name = "removeSelected")
        => /\ ~crashed'
           /\ rows' = Without(rows, selection, 0)
           /\ Len(rows') = Len(rows) - Cardinality(selection)]_vars

\* C2: removeSelected() returns the number of rows it removed; the rows it
\* removed are no longer selected and the selected rows it could not remove
\* still are.
C2_RemoveSelectedCountsRemovals ==
    [][(recorded' /\ call'.name = "removeSelected")
        => /\ ~crashed'
           /\ ret' = Len(rows) - Len(rows')
           /\ Cardinality(selection') = Cardinality(selection) - ret']_vars

\* C3: remove(row) does not delete the row from its table: after a successful
\* remove the row is still there, with every field but deleted_at as it was,
\* so that recoverRow can make it live again.
C3_RemoveKeepsTheRow ==
    [][(recorded' /\ call'.name = "remove" /\ ret' = TRUE)
        => LET row == call'.args[1]
               old == rows[row + 1]
               left == store'[BoundTable(St)]
           IN \E i \in 1..Len(left) :
                 /\ left[i].id = old.id
                 /\ \A c \in 1..Len(rec) :
                       rec[c] # "deleted_at" => left[i].cells[c] = old.cells[c]]_vars

\* C4: setTable with a name that is no table of the database fails: an error
\* is reported, errorString() is not empty afterwards, and the bound table
\* name and the role map are as they were.
C4_SetTableUnknownFails ==
    [][(recorded' /\ call'.name = "setTable"
            /\ trimmed(call'.args[1]) # <<>>
            /\ Resolve(trimmed(call'.args[1])) = {})
        => /\ errorStringNow' # <<>>
           /\ \E i \in 1..Len(events') : events'[i].sig = "error"
           /\ baseTableName' = baseTableName
           /\ d_tableName' = d_tableName
           /\ roles' = roles]_vars

\* C5: errorString() is the message of the latest internal error alone, and
\* the text of lastError() when no internal error has been recorded.
C5_ErrorStringIsLatestMessage ==
    /\ errorString # <<>> => (Len(errorString) = 1 /\ errorStringNow = errorString)
    /\ errorString = <<>> => errorStringNow = StoreText(lastError)

\* C6: select() looks for the bound table in the catalog first and, when it
\* is missing, fails without reloading; a failed select() returns false, and
\* errorString() is then the one message of that failure, which the one
\* error signal carries; a successful select() emits no error and leaves
\* d->errorString as it was.
C6_SelectReportsFailures ==
    [][(recorded' /\ call'.name = "select")
        => /\ baseTableName \notin Catalog
                => /\ ret' = FALSE
                   /\ reloads' = 0
                   /\ errorString'[1].kind = "Can not open table"
                   /\ errorString'[1].table = baseTableName
           /\ baseTableName \in Catalog
                => /\ reloads' = 1
                   /\ ret' = FALSE => errorString'[1].kind = "Read record error"
           /\ ret' = FALSE
                => /\ Len(errorString') = 1
                   /\ errorStringNow' = errorString'
                   /\ events' = <<[sig |-> "error", msg |-> errorString']>>
           /\ ret' = TRUE
                => /\ errorString' = errorString
                   /\ events' = <<>>]_vars

\* C6, its case: a select() of a model bound to a name that is no table of
\* the database has failed without a reload
C6_Witness ==
    /\ Called("select")
    /\ baseTableName # <<>> /\ baseTableName \notin Catalog
    /\ ret = FALSE /\ reloads = 0

\* C7: setData(index, true, CheckStateRole) on a valid index returns true
\* and data(index, CheckStateRole) is then true; with false it is then
\* false; selectedRows() is the number of selected rows.
C7_CheckedRoundTrip ==
    (Called("setData") /\ isValid(call.args[1]) /\ call.args[3] = CheckStateRole)
        => /\ ~crashed
           /\ ret = TRUE
           /\ \A ub \in {UbFault, UbReturns}, garbage \in BOOLEAN :
                 LET got == data(St, call.args[1], CheckStateRole, ub, garbage)
                 IN ~got.s.crashed /\ toBool(got.ret) = toBool(call.args[2])
           /\ selectedRows(St).ret = Cardinality(selection)

\* C8 as the specification states it: the keys of roleNames() are 0..N,
\* 0 the checked role and 1..N the columns 0..N-1.
C8_RolesFromZero ==
    Called("roleNames")
        => LET cols == RecordOf(baseTableName) IN
           /\ DOMAIN ret = 0..Len(cols)
           /\ ret[0] = "checkState"
           /\ \A i \in 1..Len(cols) : ret[i] = cols[i]

\* C8, amended: for a bound table of N columns roleNames() has N + 1
\* entries: Qt::CheckStateRole is the checked role and Qt::UserRole + 1 + i
\* is column i, in declaration order.
C8_RolesFromUserRole ==
    Called("roleNames")
        => LET cols == RecordOf(baseTableName) IN
           /\ Cardinality(DOMAIN ret) = Len(cols) + 1
           /\ DOMAIN ret = {CheckStateRole} \cup {UserRole + 1 + i : i \in 0..(Len(cols) - 1)}
           /\ ret[CheckStateRole] = "checkState"
           /\ \A i \in 0..(Len(cols) - 1) : ret[UserRole + 1 + i] = cols[i + 1]
           /\ roles = ret

\* C8, its case: roleNames() has been called on a model bound to a table of
\* three columns
C8_Witness ==
    /\ Called("roleNames")
    /\ Len(RecordOf(baseTableName)) = 3
    /\ Cardinality(DOMAIN ret) = 4

\* C9: after a call that binds or reloads the table, d->roles, which
\* recoverRow looks deleted_at up in, is the role map of the bound table's
\* columns, whether or not roleNames() has been called.
C9_RolesFollowTheSchema ==
    (recorded /\ call.name \in {"setTable", "select", "componentComplete"} /\ IsBound(St))
        => roles = RoleHash(RecordOf(baseTableName))

OutOfRange(row) == row < 0 \/ row >= Len(rows)

\* C11: a call that addresses a row out of range reports it by the value it
\* returns and changes nothing: data() returns a null value, remove() and
\* recoverRow() return false, and the rows and the selection are as before.
C11_OutOfRangeFails ==
    [][recorded'
        => /\ (call'.name = "data" /\ isValid(call'.args[1])
                    /\ OutOfRange(call'.args[1].row))
                => /\ ~crashed'
                   /\ ret' = Null
                   /\ rows' = rows /\ store' = store /\ selection' = selection
           /\ (call'.name \in {"remove", "recoverRow"} /\ OutOfRange(call'.args[1]))
                => /\ ~crashed'
                   /\ ret' = FALSE
                   /\ rows' = rows /\ store' = store /\ selection' = selection]_vars

\* the column of the field `name` in the record of the bound table (-1: none)
ColumnOf(name) ==
    IF \E c \in 1..Len(rec) : rec[c] = name
    THEN (CHOOSE c \in 1..Len(rec) : rec[c] = name) - 1
    ELSE -1

\* C12: recoverRow on a row whose deleted_at is null returns true and leaves
\* the row as it is; and after a recoverRow that succeeded a second one
\* returns true and leaves the row as the first left it.
C12_RecoverIsIdempotent ==
    [][(recorded' /\ call'.name = "recoverRow" /\ ~OutOfRange(call'.args[1])
            /\ ColumnOf("deleted_at") >= 0)
        => LET row == call'.args[1]
               col == ColumnOf("deleted_at")
           IN /\ ~crashed'
              /\ rows[row + 1].cells[col + 1] = Null
                    => (ret' = TRUE /\ rows' = rows /\ store' = store)
              /\ ret' = TRUE
                    => /\ rows'[row + 1].cells[col + 1] = Null
                       /\ LET again == recoverRow(St', row, TRUE, UbFault)
                          IN again.ret = TRUE /\ again.s.rows = rows'
                                /\ again.s.store = store']_vars

\* no key of d->roles holds the field name
LookupFails(name) == ~\E k \in DOMAIN roles : roles[k] = name

\* C13: when d->roles holds no role for deleted_at (the bound table has no
\* such column, or the map was not filled), recoverRow returns false and
\* changes no row and no selection, and no signal tells of a change.
C13_RecoverWithoutRoleFails ==
    [][(recorded' /\ call'.name = "recoverRow" /\ LookupFails("deleted_at"))
        => /\ ~crashed'
           /\ ret' = FALSE
           /\ rows' = rows
           /\ store' = store
           /\ selection' = selection
           /\ events' = <<>>]_vars

\* C13, its case: recoverRow has been called for a row of a table without
\* the field deleted_at, d->roles being the role map of that table
C13_Witness ==
    /\ Called("recoverRow")
    /\ ~OutOfRange(call.args[1])
    /\ rec # <<>> /\ ColumnOf("deleted_at") = -1
    /\ roles = RoleHash(rec)
    /\ ret = FALSE

\* a row has entered the model and the table at position `at`: its state is
\* Pending, its other fields are the database's defaults, and the rows that
\* were there are as they were
InsertedAt(at) ==
    /\ Len(rows') = Len(rows) + 1
    /\ Without(rows', {at}, 0) = rows
    /\ \A c \in 1..Len(rec) :
          rows'[at + 1].cells[c] = IF rec[c] = "state" THEN Pending ELSE Default
    /\ store'[BoundTable(St)] = Append(store[BoundTable(St)], rows'[at + 1])

\* C14: an insert(row) the database accepts returns row and puts a row whose
\* state is Pending and whose other fields are defaults at that position;
\* add() is insert(rowCount()); an insert that is not accepted returns -1,
\* emits one error signal and leaves the rows as they were.
C14_InsertDefaults ==
    [][(recorded' /\ call'.name \in {"insert", "add"})
        => LET row == IF call'.name = "add" THEN Len(rows) ELSE call'.args[1]
               ok == call'.args[Len(call'.args)]
               at == IF row < 0 THEN Len(rows) ELSE row
               accepted == ok /\ IsBound(St) /\ at <= Len(rows)
           IN /\ accepted
                    => /\ ret' = row
                       /\ InsertedAt(at)
                       /\ events' = <<>>
                       /\ errorString' = errorString
              /\ ~accepted
                    => /\ ret' = -1
                       /\ rows' = rows
                       /\ store' = store
                       /\ events' = <<[sig |-> "error", msg |-> errorString']>>]_vars

\* C14, its case: an insert in front of the last row of the model has been
\* accepted
C14_Witness ==
    /\ Called("insert")
    /\ call.args[1] >= 0 /\ call.args[1] < Len(rows) - 1
    /\ ret = call.args[1]
    /\ \E c \in 1..Len(rec) : rec[c] = "state" /\ rows[ret + 1].cells[c] = Pending

\* the roles roleNames() gives the columns of the bound table
ColumnRoles == {UserRole + 1 + i : i \in 0..(Len(rec) - 1)}

\* C15: a setData the database accepts, for a row of the model and the role
\* of a column, writes the value into the cell of that column and into no
\* other, changes no selection, and data() for that row and role is then
\* the value.
C15_FieldRoundTrip ==
    [][(recorded' /\ call'.name = "setData"
            /\ isValid(call'.args[1]) /\ ~OutOfRange(call'.args[1].row)
            /\ call'.args[3] \in ColumnRoles
            /\ ret' = TRUE)
        => LET idx == call'.args[1]
               value == call'.args[2]
               role == call'.args[3]
               id == rows[idx.row + 1].id
               column == role - UserRole - 1
           IN /\ ~crashed'
              /\ rows' = WithCell(rows, id, column, value)
              /\ store'[BoundTable(St)] = WithCell(store[BoundTable(St)], id, column, value)
              /\ selection' = selection
              /\ data(St', idx, role, UbReturns, FALSE).ret = value]_vars

\* C15, its case: setData has written a value into the cell deleted_at of
\* the first row, which was null
C15_Witness ==
    /\ Called("setData")
    /\ isValid(call.args[1]) /\ call.args[1].row = 0
    /\ call.args[2] = "v" /\ call.args[3] = UserRole + 2
    /\ ret = TRUE
    /\ rows # <<>> /\ rows[1].id = 1 /\ rows[1].cells[2] = "v"

\* C16: recoverSelected() returns the number of selected rows it recovered:
\* those rows are live and no longer selected, the selected rows it could
\* not recover still are selected, and no other row is touched.
C16_RecoverSelectedCountsRecoveries ==
    [][(recorded' /\ call'.name = "recoverSelected")
        => /\ ~crashed'
           /\ selection' \subseteq selection
           /\ ret' = Cardinality(selection) - Cardinality(selection')
           /\ Len(rows') = Len(rows)
           /\ \A r \in 0..(Len(rows) - 1) :
                 IF r \in selection \ selection'
                 THEN rows'[r + 1].cells[ColumnOf("deleted_at") + 1] = Null
                 ELSE rows'[r + 1] = rows[r + 1]]_vars

\* C17: setTable with a name that, trimmed and without regard to case, is
\* the table name the object already holds changes nothing and emits no
\* tableChanged, whether or not a database name has been set.
C17_RedundantRebindSuppressed ==
    [][(recorded' /\ call'.name = "setTable"
            /\ trimmed(call'.args[1]) # <<>>
            /\ SameNoCase(trimmed(call'.args[1]), d_tableName))
        => /\ events' = <<>>
           /\ d_tableName' = d_tableName
           /\ baseTableName' = baseTableName
           /\ rec' = rec
           /\ rows' = rows
           /\ selection' = selection
           /\ errorString' = errorString]_vars

\* C19: after a setTable(name) that emitted tableChanged, tableName() is the
\* trimmed name; and after every call d->tableName and tableName() are the
\* same name, also when no database name has been set.
C19_TableNameAgrees ==
    [][/\ (recorded' /\ call'.name = "setTable"
               /\ \E e \in 1..Len(events') : events'[e].sig = "tableChanged")
            => tableName(St') = trimmed(call'.args[1])
       /\ tableName(St') = d_tableName']_vars

\* C18: no call makes a member call through d->selectionModel while it is
\* null (a call that does faults when the null access faults): not setData
\* or data with the check-state role, not removeSelected or recoverSelected;
\* no call faults; and selectedRows() is 0 while the pointer is null.
C18_SelectionModelAttached ==
    [][/\ (recorded' /\ call'.name = "setData")
            => ~setData(St, call'.args[1], call'.args[2], call'.args[3],
                        TRUE, UbFault).s.crashed
       /\ (recorded' /\ call'.name = "data")
            => ~data(St, call'.args[1], call'.args[2], UbFault, FALSE).s.crashed
       /\ (recorded' /\ call'.name = "removeSelected")
            => ~removeSelected(St, UbFault, <<>>, {}, -1).s.crashed
       /\ (recorded' /\ call'.name = "recoverSelected")
            => ~recoverSelected(St, UbFault, <<>>, {}, -1).s.crashed
       /\ ~crashed'
       /\ selectionModel' = nullptr => selectedRows(St').ret = 0]_vars

=============================================================================
